---- MODULE Spec2Model ----
(***************************************************************************)
(* State-machine model of cerebro: the SourceList supervisor and the       *)
(* start/stop/restart lifecycle of its sources (cerebro/cerebro.py,        *)
(* cerebro/sources/*.py), the Cerebro hub's on_next fan-out                *)
(* (cerebro/cerebro.py, cerebro/observer.py) and the reconnecting TCP      *)
(* client protocol (cerebro/protocols.py).                                 *)
(*                                                                         *)
(* Everything runs on one asyncio event loop: a step of the model is one   *)
(* run of a task or callback from one suspension point (await) to the      *)
(* next.  Synchronous code is atomic; code that never yields blocks every  *)
(* other task (LoopFree).                                                  *)
(***************************************************************************)
EXTENDS Integers, Sequences, FiniteSets, TLC

\* ---------------------------------------------------------------- bounds

\* The source objects of a run, the names they may carry, and the clients
\* that issue requests (status-server connections and direct callers).
Objs == {"o1", "o2"}
Names == {"a", "b"}
Callers == {"c1", "c2"}
Owners == Callers \cup {"hub"}
None == "None"

\* Most internal tasks (live, or cancelled and not yet finished) per source.
MaxTasks == 2

\* The source classes modelled: TCPSource, CheckFileExistsSource, DriftSource,
\* IEBSource and ActorClientSource.
Kinds == {"tcp", "checkfile", "drift", "ieb", "actor"}

VARIABLES
    kind,            \* class of each source object (fixed at construction)
    name,            \* Source.name of each object (fixed at construction)
    src,             \* per object: running, task bookkeeping, transport, disposed
    sup,             \* per object: state of its SourceList._start_source task
    touched,         \* per object: start()/restart() was invoked on it by a caller
    list,            \* the SourceList itself (a Python list of sources)
    name_to_source,  \* SourceList._name_to_source
    frame,           \* per owner: the coroutine it is running (start/stop/restart)
    hubStop,         \* SourceList.stop(): "idle", "spin" (busy wait) or "done"
    hubAt,           \* index in the list SourceList.stop() has reached
    ev,              \* the operation that completed in the last step
    \* Cerebro (the hub)
    tags,            \* Cerebro.tags
    offset,          \* Cerebro._offset
    clock_timers,    \* pending call_soon/call_later of update_time_offset
    observers,       \* Subject.observers of the hub, in subscription order
    default_bucket,  \* InfluxDB.default_bucket of each observer
    received,        \* per observer: the batches its on_next was called with
    published,       \* number of Cerebro.on_next calls so far
    lastPub,         \* what the last Cerebro.on_next call did
    lastNtp,         \* what the last Cerebro.update_time_offset call did
    \* ReconnectingTCPClientProtocol
    client,          \* the client's attributes and what the loop holds for it
    cev,             \* the client event of the last step
    \* TCPSource
    tcp,             \* the source's attributes, its read tasks and connections
    tev,             \* the TCPSource event of the last step
    \* the way of a batch from its source to the hub
    calls,           \* call_soon callbacks of ClientProtocol.data_received, in order
    emitted,         \* per source: how many chunks or batches it has produced
    origin,          \* per Cerebro.on_next call so far: the source and its number
    \* the hub object and a TronSource
    cerebro,         \* Cerebro: constructed or not, its name, its status server
    tron             \* TronSource: keywords, tags, and the keyword it saw last

supVars == <<kind, name, src, sup, touched, list, name_to_source, frame, hubStop, hubAt, ev>>

hubVars == <<tags, offset, clock_timers, observers, default_bucket, received, published, lastPub,
             lastNtp>>

clientVars == <<client, cev>>

tcpVars == <<tcp, tev>>

ordVars == <<calls, emitted, origin>>

objVars == <<cerebro, tron>>

vars == <<supVars, hubVars, clientVars, tcpVars, ordVars, objVars>>

\* ------------------------------------------------------- source classes

\* Source.__init__ / TCPSource.__init__: not running, no task, no transport.
\*   tracked: live tasks the object still references (_runner, _task, _tasks,
\*            _command_tasks); orphan: live tasks it no longer references;
\*   dying: tasks whose cancel() was requested and that have not finished yet;
\*   transport: ActorClientSource.transport is not None.
SrcInit ==
    [running |-> FALSE, tracked |-> 0, orphan |-> 0, dying |-> 0,
     transport |-> FALSE, disposed |-> FALSE]

\* Class attribute `timeout`: 60 for ActorClientSource, None for the others.
HasTimeout(k) == k = "actor"

\* start() awaits a connection before it does anything else.
StartSuspends(k) == k \in {"ieb", "actor"}

\* asyncio.iscoroutinefunction(source.stop): IEBSource.stop is a plain method.
StopIsCoroutine(k) == k # "ieb"

\* StartBody as it would be if ActorClientSource.start forgot `self.running =
\* True` (as IEBSource.start does).
StartBodyNoFlag(k, st) ==
    CASE k \in {"tcp", "checkfile", "drift"} ->
            [st EXCEPT !.orphan = @ + st.tracked, !.tracked = 1, !.running = TRUE]
      [] k = "ieb" -> [st EXCEPT !.tracked = @ + 1]
      [] k = "actor" -> [st EXCEPT !.transport = TRUE, !.tracked = @ + 1]

\* The part of start() that runs without suspension (after the connection, if
\* the class makes one).
StartBody(k, st) ==
    CASE k \in {"tcp", "checkfile", "drift"} ->
            \* self._runner = create_task(...): the previous task, if any, is
            \* no longer referenced but keeps running.
            [st EXCEPT !.orphan = @ + st.tracked, !.tracked = 1, !.running = TRUE]
      [] k = "ieb" ->
            \* _schedule_task appends to _tasks; running is never set.
            [st EXCEPT !.tracked = @ + 1]
      [] k = "actor" ->
            [st EXCEPT !.transport = TRUE, !.tracked = @ + 1, !.running = TRUE]

\* stop() raises before doing anything.
StopRaises(k, st) ==
    CASE k \in {"tcp", "checkfile"} -> ~st.running    \* RuntimeError
      [] k = "actor" -> ~st.transport                 \* assert self.transport
      [] OTHER -> FALSE

\* task.cancel() on every task the object references.
StopCancel(st) == [st EXCEPT !.dying = @ + st.tracked, !.tracked = 0]

\* stop() awaits a task it has cancelled (IEBSource.stop awaits nothing).
StopSuspends(k, st) == StopIsCoroutine(k) /\ (st.tracked > 0 \/ st.dying > 0)

\* The rest of stop() once the awaited tasks are finished.
StopEnd(k, st) ==
    CASE k \in {"checkfile", "drift"} -> [st EXCEPT !.running = FALSE]
      [] k = "actor" ->
            \* self._command_tasks = [] drops whatever was appended meanwhile.
            [st EXCEPT !.orphan = @ + st.tracked, !.tracked = 0, !.running = FALSE]
      [] OTHER -> st      \* TCPSource.stop and IEBSource.stop leave running alone

\* A call runs until it returns ("ok"), raises ("raised") or suspends
\* ("pending", at pc).
StartStage(k, st) ==
    IF StartSuspends(k)
    THEN [st |-> st, pc |-> "connecting", res |-> "pending"]
    ELSE [st |-> StartBody(k, st), pc |-> "none", res |-> "ok"]

StopStage(k, st) ==
    IF StopRaises(k, st) THEN [st |-> st, pc |-> "none", res |-> "raised"]
    ELSE IF StopSuspends(k, st)
         THEN [st |-> StopCancel(st), pc |-> "stopWait", res |-> "pending"]
         ELSE [st |-> StopEnd(k, StopCancel(st)), pc |-> "none", res |-> "ok"]

\* Source.restart: stop() only if running is True, then start().
RestartStage(k, st) ==
    IF st.running
    THEN LET r == StopStage(k, st)
         IN  IF r.res = "ok" THEN StartStage(k, r.st) ELSE r
    ELSE StartStage(k, st)

Live(st) == st.tracked + st.orphan

Bounded(st) == Live(st) <= MaxTasks /\ st.dying <= MaxTasks

\* ------------------------------------------------------------ event loop

\* SourceList.stop() busy-waits inside a coroutine, so nothing else can run;
\* once it has returned the daemon stops the loop (__main__.daemon).
LoopFree == hubStop = "idle"

Idle == [op |-> "none", arg |-> None, src |-> None, pc |-> "none"]

NoEv == [op |-> "none", src |-> None, arg |-> None, res |-> "none", reply |-> "none"]

ReplyAlwaysTrue(op, r) == IF op = "restart" THEN "true" ELSE "none"

\* What status_server_cb writes once `source = self.sources.get(name); await
\* source.restart()` is over: b"true" when neither raised, b"false" from the
\* except BaseException branch.  Nothing is written for other operations.
Reply(op, r) ==
    IF op = "restart" THEN (IF r = "ok" THEN "true" ELSE "false") ELSE "none"

Ev(op, s, a, r) == [op |-> op, src |-> s, arg |-> a, res |-> r, reply |-> Reply(op, r)]

\* ---------------------------------------------------------- SourceList

\* SourceList.add_source: no check of the name; registers, appends and spawns
\* the _start_source task.
add_source(s) ==
    /\ LoopFree
    /\ sup[s] = "none"
    /\ name_to_source' = [name_to_source EXCEPT ![name[s]] = s]
    /\ list' = Append(list, s)
    /\ sup' = [sup EXCEPT ![s] = "ready"]
    /\ ev' = Ev("add", s, name[s], "ok")
    /\ UNCHANGED <<kind, name, src, touched, frame, hubStop, hubAt, hubVars, clientVars, tcpVars, ordVars, objVars>>

\* SourceList._start_source up to the first suspension of source.start().
start_source(s) ==
    /\ LoopFree
    /\ sup[s] = "ready"
    /\ LET r == StartStage(kind[s], src[s])
       IN  /\ Bounded(r.st)
           /\ src' = [src EXCEPT ![s] = r.st]
           /\ sup' = [sup EXCEPT ![s] = IF r.res = "ok" THEN "ok" ELSE "connecting"]
           /\ ev' = IF r.res = "ok" THEN Ev("sup_start", s, name[s], "ok") ELSE NoEv
    /\ UNCHANGED <<kind, name, touched, list, name_to_source, frame, hubStop, hubAt, hubVars, clientVars, tcpVars, ordVars, objVars>>

\* The connection start() awaits is made: start() runs to its end.
start_connected(s) ==
    /\ LoopFree
    /\ sup[s] = "connecting"
    /\ LET st == StartBody(kind[s], src[s])
       IN  /\ Bounded(st)
           /\ src' = [src EXCEPT ![s] = st]
    /\ sup' = [sup EXCEPT ![s] = "ok"]
    /\ ev' = Ev("sup_start", s, name[s], "ok")
    /\ UNCHANGED <<kind, name, touched, list, name_to_source, frame, hubStop, hubAt, hubVars, clientVars, tcpVars, ordVars, objVars>>

\* start() raises: except BaseException sets running = False.
start_failed(s) ==
    /\ LoopFree
    /\ sup[s] = "connecting"
    /\ src' = [src EXCEPT ![s].running = FALSE]
    /\ sup' = [sup EXCEPT ![s] = "raised"]
    /\ ev' = Ev("sup_start", s, name[s], "raised")
    /\ UNCHANGED <<kind, name, touched, list, name_to_source, frame, hubStop, hubAt, hubVars, clientVars, tcpVars, ordVars, objVars>>

\* asyncio.wait_for times out: it cancels start() and raises TimeoutError;
\* except asyncio.TimeoutError sets running = False.
start_timeout(s) ==
    /\ LoopFree
    /\ sup[s] = "connecting"
    /\ HasTimeout(kind[s])
    /\ src' = [src EXCEPT ![s].running = FALSE]
    /\ sup' = [sup EXCEPT ![s] = "timeout"]
    /\ ev' = Ev("sup_start", s, name[s], "timeout")
    /\ UNCHANGED <<kind, name, touched, list, name_to_source, frame, hubStop, hubAt, hubVars, clientVars, tcpVars, ordVars, objVars>>

\* list.remove(x): drops the first occurrence.
RECURSIVE ListRemove(_, _)
ListRemove(l, s) ==
    IF l = <<>> THEN <<>>
    ELSE IF Head(l) = s THEN Tail(l)
    ELSE <<Head(l)>> \o ListRemove(Tail(l), s)

\* SourceList.remove_source: KeyError for an unknown name; otherwise
\* SourceList.remove (source.dispose() and list.remove) and the name is popped.
\* The source's stop() is not called.
RemoveByName(n) ==
    IF name_to_source[n] = None
    THEN /\ ev' = Ev("remove", None, n, "notfound")
         /\ UNCHANGED <<src, list, name_to_source>>
    ELSE LET s == name_to_source[n]
         IN  /\ src' = [src EXCEPT ![s].disposed = TRUE]
             /\ list' = ListRemove(list, s)
             /\ name_to_source' = [name_to_source EXCEPT ![n] = None]
             /\ ev' = Ev("remove", s, n, "ok")

remove_source(n) ==
    /\ LoopFree
    /\ RemoveByName(n)
    /\ UNCHANGED <<kind, name, sup, touched, frame, hubStop, hubAt, hubVars, clientVars, tcpVars, ordVars, objVars>>

\* SourceList.pop(index): remove_source(self[index].name).
pop(i) ==
    /\ LoopFree
    /\ i \in DOMAIN list
    /\ RemoveByName(name[list[i]])
    /\ UNCHANGED <<kind, name, sup, touched, frame, hubStop, hubAt, hubVars, clientVars, tcpVars, ordVars, objVars>>

\* ------------------------------------------- callers and their coroutines

\* A request reaches a caller's task: "restart <name>" on a status-server
\* connection (Cerebro.status_server_cb), or a direct start()/stop() of a
\* source object.  The task runs when the loop schedules it (run_request).
request(c, op, a) ==
    /\ frame[c] = Idle
    /\ frame' = [frame EXCEPT ![c] = [op |-> op, arg |-> a, src |-> None, pc |-> "ready"]]
    /\ ev' = NoEv
    /\ UNCHANGED <<kind, name, src, sup, touched, list, name_to_source, hubStop, hubAt, hubVars, clientVars, tcpVars, ordVars, objVars>>

\* The source a request is about: SourceList.get(name) for a restart.
Target(f) == IF f.arg \in Names THEN name_to_source[f.arg] ELSE f.arg

FirstStage(op, k, st) ==
    CASE op = "restart" -> RestartStage(k, st)
      [] op = "start" -> StartStage(k, st)
      [] op = "stop" -> StopStage(k, st)

\* The frame after a stage: idle when the call returned or raised.
After(f, s, r) ==
    IF r.res = "pending" THEN [f EXCEPT !.src = s, !.pc = r.pc] ELSE Idle

Done(f, s, r) == IF r.res = "pending" THEN NoEv ELSE Ev(f.op, s, f.arg, r.res)

\* The task runs from the request to its first suspension.  For "restart" this
\* is the elif branch of status_server_cb: get() raising ValueError is caught
\* (reply false); the close task of SourceList.stop() is a "stop" frame of
\* owner "hub".
run_request(o) ==
    /\ LoopFree
    /\ frame[o].pc = "ready"
    /\ LET f == frame[o]
           s == Target(f)
       IN  IF s = None
           THEN /\ frame' = [frame EXCEPT ![o] = Idle]
                /\ ev' = Ev(f.op, None, f.arg, "notfound")
                /\ UNCHANGED <<src, touched>>
           ELSE LET r == FirstStage(f.op, kind[s], src[s])
                IN  /\ Bounded(r.st)
                    /\ src' = [src EXCEPT ![s] = r.st]
                    /\ touched' = [touched EXCEPT ![s] = @ \/ f.op \in {"start", "restart"}]
                    /\ frame' = [frame EXCEPT ![o] = After(f, s, r)]
                    /\ ev' = Done(f, s, r)
    /\ UNCHANGED <<kind, name, sup, list, name_to_source, hubStop, hubAt, hubVars, clientVars, tcpVars, ordVars, objVars>>

\* A cancelled task runs, sees CancelledError and finishes.
task_cancelled(s) ==
    /\ LoopFree
    /\ src[s].dying > 0
    /\ src' = [src EXCEPT ![s].dying = @ - 1]
    /\ ev' = NoEv
    /\ UNCHANGED <<kind, name, sup, touched, list, name_to_source, frame, hubStop, hubAt, hubVars, clientVars, tcpVars, ordVars, objVars>>

\* stop() resumes after `await task`: the rest of stop(), and for a restart
\* the start() that follows.
stop_resumed(o) ==
    /\ LoopFree
    /\ frame[o].pc = "stopWait"
    /\ LET f == frame[o]
           s == f.src
           st == StopEnd(kind[s], src[s])
           r == IF f.op = "restart" THEN StartStage(kind[s], st)
                ELSE [st |-> st, pc |-> "none", res |-> "ok"]
       IN  /\ src[s].dying = 0
           /\ Bounded(r.st)
           /\ src' = [src EXCEPT ![s] = r.st]
           /\ frame' = [frame EXCEPT ![o] = After(f, s, r)]
           /\ ev' = Done(f, s, r)
    /\ UNCHANGED <<kind, name, sup, touched, list, name_to_source, hubStop, hubAt, hubVars, clientVars, tcpVars, ordVars, objVars>>

\* The connection a caller's start() awaits is made.
connected(o) ==
    /\ LoopFree
    /\ frame[o].pc = "connecting"
    /\ LET f == frame[o]
           s == f.src
           st == StartBody(kind[s], src[s])
       IN  /\ Bounded(st)
           /\ src' = [src EXCEPT ![s] = st]
           /\ ev' = Ev(f.op, s, f.arg, "ok")
    /\ frame' = [frame EXCEPT ![o] = Idle]
    /\ UNCHANGED <<kind, name, sup, touched, list, name_to_source, hubStop, hubAt, hubVars, clientVars, tcpVars, ordVars, objVars>>

\* The connection fails: start() raises into its caller.
connect_failed(o) ==
    /\ LoopFree
    /\ frame[o].pc = "connecting"
    /\ ev' = Ev(frame[o].op, frame[o].src, frame[o].arg, "raised")
    /\ frame' = [frame EXCEPT ![o] = Idle]
    /\ UNCHANGED <<kind, name, src, sup, touched, list, name_to_source, hubStop, hubAt, hubVars, clientVars, tcpVars, ordVars, objVars>>

\* ------------------------------------------------------ SourceList.stop

\* The for loop of SourceList.stop from index i: plain stop() methods are
\* called in place; at the first coroutine stop() it stops at that index.
RECURSIVE StopSweep(_, _)
StopSweep(i, S) ==
    IF i > Len(list) THEN [src |-> S, at |-> 0]
    ELSE LET s == list[i]
         IN  IF StopIsCoroutine(kind[s]) THEN [src |-> S, at |-> i]
             ELSE StopSweep(i + 1, [S EXCEPT ![s] = StopStage(kind[s], S[s]).st])

\* From index i on: either the loop ends, or a close task is created for the
\* coroutine stop() at index r.at and the busy wait begins.
Sweep(i) ==
    LET r == StopSweep(i, src)
    IN  /\ \A s \in Objs : r.src[s].dying <= MaxTasks
        /\ src' = r.src
        /\ hubAt' = r.at
        /\ IF r.at = 0
           THEN hubStop' = "done" /\ frame' = frame
           ELSE /\ hubStop' = "spin"
                /\ frame' = [frame EXCEPT !["hub"] =
                       [op |-> "stop", arg |-> list[r.at], src |-> None, pc |-> "ready"]]

\* Cerebro.stop -> SourceList.stop, called from a coroutine of the loop.
stop ==
    /\ hubStop = "idle"
    /\ Sweep(1)
    /\ ev' = NoEv
    /\ UNCHANGED <<kind, name, sup, touched, list, name_to_source, hubVars, clientVars, tcpVars, ordVars, objVars>>

\* One turn of `while not close_task.done(): pass`.
busy_wait ==
    /\ hubStop = "spin"
    /\ IF frame["hub"] = Idle
       THEN Sweep(hubAt + 1)
       ELSE UNCHANGED <<src, frame, hubStop, hubAt>>
    /\ ev' = NoEv
    /\ UNCHANGED <<kind, name, sup, touched, list, name_to_source, hubVars, clientVars, tcpVars, ordVars, objVars>>

\* ------------------------------------------------ the reconnecting client

\* ReconnectingTCPClientProtocol's class attributes.  Delays are in tenths of
\* a second; factor and jitter are in thousandths and ten-thousandths.
max_delay == 36000
initial_delay == 10
factor == 2718
jitter == 1196
NoCap == 0 - 1

\* Most failures counted by one client, most _connect tasks not yet finished,
\* most queued connection_failed callbacks and most open connections; the
\* max_retries a subclass may set.
MaxFailures == 9
MaxInFlight == 2
MaxQueued == 2
MaxTransports == 2
RetryCap == 1

\* ReconnectingTCPClientProtocol.__init__.  Beside the attributes: the loop's
\* pending retry timers the client no longer holds (timers), its _connect tasks
\* it no longer holds (stray), cancelled _connect tasks that have yet to
\* unwind (cancelled), queued connection_failed callbacks (failed_calls) and
\* open connections (transports).  A retry delay is seconds long and a queued
\* callback runs at the next turn of the loop, so a timer scheduled while
\* callbacks are queued is not due before they have run: held_fresh says so of
\* the timer held, fresh counts such timers among those no longer held.
ClientConstructed(mr, j) ==
    [max_retries |-> mr, jitter_on |-> j, retries |-> 0, delay |-> initial_delay,
     continue_trying |-> TRUE, call_handle |-> "none", connector |-> "none",
     connected |-> FALSE, timers |-> 0, stray |-> 0, cancelled |-> 0,
     failed_calls |-> 0, transports |-> 0, held_fresh |-> FALSE, fresh |-> 0]

Min(a, b) == IF a <= b THEN a ELSE b

\* random.normalvariate(mu, mu * jitter): one deviation below the mean or above.
Draws == {0 - 1, 1}
Jittered(mu, z) == mu + z * ((mu * jitter) \div 10000)

\* retry as it would be without its call_later: the delay grows, no timer is
\* scheduled.
retryNoTimer(st, z) ==
    IF ~st.continue_trying THEN st
    ELSE IF st.max_retries # NoCap /\ st.retries + 1 > st.max_retries
    THEN [st EXCEPT !.retries = @ + 1]
    ELSE LET d == Min((st.delay * factor) \div 1000, max_delay)
         IN  [st EXCEPT !.retries = @ + 1,
                        !.delay = IF st.jitter_on THEN Jittered(d, z) ELSE d]

\* ReconnectingTCPClientProtocol.retry; call_later replaces the handle held
\* and does not cancel it.
retry(st, z) ==
    IF ~st.continue_trying THEN st
    ELSE IF st.max_retries # NoCap /\ st.retries + 1 > st.max_retries
    THEN [st EXCEPT !.retries = @ + 1]
    ELSE LET d == Min((st.delay * factor) \div 1000, max_delay)
         IN  [st EXCEPT !.retries = @ + 1,
                        !.delay = IF st.jitter_on THEN Jittered(d, z) ELSE d,
                        !.call_handle = "pending",
                        !.timers = IF st.call_handle = "pending" THEN @ + 1 ELSE @,
                        !.held_fresh = st.failed_calls > 0,
                        !.fresh = IF st.call_handle = "pending" /\ st.held_fresh
                                  THEN @ + 1 ELSE @]

\* ReconnectingTCPClientProtocol.connect (the method).
Connect(st) ==
    IF st.connector = "none" THEN [st EXCEPT !.connector = "created"] ELSE st

\* Failure as it would be without `self.connected = False`.
FailureKeepsFlag(st, z) ==
    IF st.continue_trying THEN retry(st, z) ELSE st

\* connection_lost and connection_failed share their body.
Failure(st, z) ==
    IF st.continue_trying
    THEN retry([st EXCEPT !.connected = FALSE], z)
    ELSE [st EXCEPT !.connected = FALSE]

InFlight(st) == st.stray + (IF st.connector = "none" THEN 0 ELSE 1)

\* The _connect tasks the loop still has to run, cancelled ones included.
Tasks(st) == InFlight(st) + st.cancelled

CEv(op, started) == [op |-> op, started |-> started]

\* connect() is called.
connect ==
    /\ client.connector = "none" => Tasks(client) < MaxInFlight
    /\ client' = Connect(client)
    /\ cev' = CEv("connect", client.connector = "none")
    /\ UNCHANGED <<supVars, hubVars, tcpVars, ordVars, objVars>>

\* The _connect task runs up to `await create_connection(...)`.
connect_task_runs ==
    /\ client.connector = "created"
    /\ client' = [client EXCEPT !.connector = "connecting"]
    /\ cev' = CEv("task", FALSE)
    /\ UNCHANGED <<supVars, hubVars, tcpVars, ordVars, objVars>>

\* Which attempt an event is about: the one the client holds, or one it lost
\* track of.
HasAttempt(st, h) ==
    IF h = "held" THEN st.connector = "connecting" ELSE st.stray > 0

EndAttempt(st, h) ==
    [st EXCEPT !.connector = "none",
               !.stray = IF h = "held" THEN @
                         ELSE (@ - 1) + (IF st.connector = "none" THEN 0 ELSE 1)]

\* _connect: create_connection returned.
connect_succeeds(h) ==
    /\ HasAttempt(client, h)
    /\ client.transports < MaxTransports
    /\ client' = [EndAttempt(client, h) EXCEPT !.connected = TRUE,
                                               !.transports = @ + 1]
    /\ cev' = CEv("succeeded", FALSE)
    /\ UNCHANGED <<supVars, hubVars, tcpVars, ordVars, objVars>>

\* _connect: create_connection raised.
connect_raises(h) ==
    /\ HasAttempt(client, h)
    /\ client.failed_calls < MaxQueued
    /\ client.retries + client.failed_calls < MaxFailures
    /\ client' = [EndAttempt(client, h) EXCEPT !.failed_calls = @ + 1]
    /\ cev' = CEv("raised", FALSE)
    /\ UNCHANGED <<supVars, hubVars, tcpVars, ordVars, objVars>>

\* _connect cancelled while awaiting: CancelledError is no Exception, the
\* finally clause runs.
connect_cancelled ==
    /\ client.cancelled > 0
    /\ client' = [client EXCEPT !.cancelled = @ - 1,
                                !.connector = "none",
                                !.stray = @ + (IF client.connector = "none" THEN 0 ELSE 1)]
    /\ cev' = CEv("cancelled", FALSE)
    /\ UNCHANGED <<supVars, hubVars, tcpVars, ordVars, objVars>>

\* The queue of connection_failed callbacks after one of them is taken.
Dequeued(st) ==
    IF st.failed_calls = 1
    THEN [st EXCEPT !.failed_calls = 0, !.held_fresh = FALSE, !.fresh = 0]
    ELSE [st EXCEPT !.failed_calls = @ - 1]

\* The callback queued by _connect's except clause.
connection_failed(z) ==
    /\ client.failed_calls > 0
    /\ client' = Failure(Dequeued(client), z)
    /\ cev' = CEv("connection_failed", FALSE)
    /\ UNCHANGED <<supVars, hubVars, tcpVars, ordVars, objVars>>

\* The transport reports an open connection closed.
connection_lost(z) ==
    /\ client.transports > 0
    /\ client.retries + client.failed_calls < MaxFailures
    /\ client' = Failure([client EXCEPT !.transports = @ - 1], z)
    /\ cev' = CEv("connection_lost", FALSE)
    /\ UNCHANGED <<supVars, hubVars, tcpVars, ordVars, objVars>>

\* A retry timer is due: the loop calls connect().
timer_fires(h) ==
    /\ IF h = "held"
       THEN client.call_handle = "pending" /\ ~client.held_fresh
       ELSE client.timers > client.fresh
    /\ client.connector = "none" => Tasks(client) < MaxInFlight
    /\ client' = Connect(IF h = "held"
                         THEN [client EXCEPT !.call_handle = "spent"]
                         ELSE [client EXCEPT !.timers = @ - 1])
    /\ cev' = CEv("timer", client.connector = "none")
    /\ UNCHANGED <<supVars, hubVars, tcpVars, ordVars, objVars>>

\* ReconnectingTCPClientProtocol.stop_trying.
stop_trying ==
    /\ client' = [client EXCEPT !.call_handle = "none",
                                !.held_fresh = FALSE,
                                !.continue_trying = FALSE,
                                !.connector = "none",
                                !.cancelled = @ + (IF client.connector = "connecting"
                                                   THEN 1 ELSE 0),
                                !.connected = FALSE]
    /\ cev' = CEv("stop_trying", FALSE)
    /\ UNCHANGED <<supVars, hubVars, tcpVars, ordVars, objVars>>

\* ------------------------------------------- TCPSource and its read loop

\* Most read tasks created in a run (each start() creates one), and most
\* connections left open that nothing refers to any more.
MaxReaders == 2
MaxLeaked == 2

Readers == 1 .. MaxReaders

\* TCPSource.__init__.
\*   runner: the task self._runner refers to (0: None);
\*   pc: where each read task is: "none" (not created), "created" (not run
\*       yet), suspended at "closing" (writer.wait_closed), "connecting"
\*       (open_connection), "reading" (_read_internal), "sleeping" (sleep after
\*       an OSError or in the finally clause), "draining" (the sleep of the
\*       finally clause while CancelledError propagates), "stopping" (its own
\*       call of stop()), or finished: "done" (returned), "cancelled";
\*   cancel: cancel() was called on the task and CancelledError has not been
\*       raised in it yet;
\*   awaits: the task that the reader's own stop() awaits;
\*   conn: the last connection the reader opened;
\*   writer_by: the reader that opened the connection self.writer refers to
\*       (0: self.writer is None);
\*   leaked: open connections that no attribute refers to;
\*   stopper: the task a caller's stop() awaits (0: no stop() in progress);
\*   stop_called: stop() was called on the running source by a caller;
\*   phase: "stopped" once stop() has returned with no start() since it was
\*       called.
TCPConstructed ==
    [running |-> FALSE, runner |-> 0,
     pc |-> [r \in Readers |-> "none"],
     cancel |-> [r \in Readers |-> FALSE],
     awaits |-> [r \in Readers |-> 0],
     conn |-> [r \in Readers |-> "none"],
     writer_by |-> 0, leaked |-> 0, stopper |-> 0,
     stop_called |-> FALSE, phase |-> "new"]

TEv(op, r) == [op |-> op, r |-> r]

Finished(st, r) == st.pc[r] \in {"done", "cancelled"}

\* self.writer and not self.writer.is_closing()
WriterOpen(st) == st.writer_by # 0 /\ st.conn[st.writer_by] = "open"

\* self.writer.close()
CloseWriter(st) ==
    IF st.writer_by # 0 THEN [st EXCEPT !.conn[st.writer_by] = "closed"] ELSE st

\* Connections of the source that are open.
OpenTransports(st) == st.leaked + Cardinality({r \in Readers : st.conn[r] = "open"})

\* task.cancel(): nothing for a finished task.
Cancel(st, t) ==
    IF t = 0 \/ Finished(st, t) THEN st ELSE [st EXCEPT !.cancel[t] = TRUE]

\* The head of the loop in read(): close the writer if it is open and wait
\* for it, then open_connection.
Top(st, r) ==
    IF WriterOpen(st)
    THEN [CloseWriter(st) EXCEPT !.pc[r] = "closing"]
    ELSE [st EXCEPT !.pc[r] = "connecting"]

\* `await self._runner` of stop() on a finished task t, under
\* suppress(CancelledError): a cancelled task raises, which skips
\* `self._runner = None`.
StopAwaited(st, t) ==
    IF st.pc[t] = "done" THEN [st EXCEPT !.runner = 0] ELSE st

\* read() handling `except BaseException` of the connect block: it awaits
\* self.stop() and returns.  running is True here (start() set it before the
\* task ran and TCPSource never clears it).  When the task self._runner is the
\* reader itself, it cancels itself and awaits itself.
SelfStop(st, r) ==
    LET t == st.runner
    IN  IF t = 0 THEN [st EXCEPT !.pc[r] = "done"]
        ELSE IF t # r /\ Finished(st, t)
             THEN [StopAwaited(st, t) EXCEPT !.pc[r] = "done"]
             ELSE [Cancel(st, t) EXCEPT !.pc[r] = "stopping", !.awaits[r] = t]

\* TCPSource.start: a new read task, whatever the previous one is doing.
tcp_start ==
    /\ \E r \in Readers :
          /\ tcp.pc[r] = "none"
          /\ \A q \in Readers : q < r => tcp.pc[q] # "none"
          /\ tcp' = [tcp EXCEPT !.runner = r, !.pc[r] = "created",
                                !.running = TRUE, !.phase = "started"]
          /\ tev' = TEv("start", r)
    /\ UNCHANGED <<supVars, hubVars, clientVars, ordVars, objVars>>

\* TCPSource.stop called (by one caller at a time): up to `await self._runner`.
tcp_stop ==
    /\ tcp.stopper = 0
    /\ LET t == tcp.runner
           c == [Cancel(tcp, t) EXCEPT !.stop_called = TRUE]
       IN  IF ~tcp.running
           THEN tcp' = tcp /\ tev' = TEv("stop_raised", 0)
           ELSE IF t = 0
           THEN tcp' = [c EXCEPT !.phase = "stopped"] /\ tev' = TEv("stopped", 0)
           ELSE IF Finished(tcp, t)
           THEN /\ tcp' = [StopAwaited(c, t) EXCEPT !.phase = "stopped"]
                /\ tev' = TEv("stopped", t)
           ELSE /\ tcp' = [c EXCEPT !.stopper = t, !.phase = "stopping"]
                /\ tev' = TEv("stop", t)
    /\ UNCHANGED <<supVars, hubVars, clientVars, ordVars, objVars>>

\* The task stop() awaits has finished: stop() returns.
tcp_stop_resumes ==
    /\ tcp.stopper # 0
    /\ Finished(tcp, tcp.stopper)
    /\ tcp' = [StopAwaited(tcp, tcp.stopper) EXCEPT
                   !.stopper = 0,
                   !.phase = IF @ = "stopping" THEN "stopped" ELSE @]
    /\ tev' = TEv("stopped", tcp.stopper)
    /\ UNCHANGED <<supVars, hubVars, clientVars, ordVars, objVars>>

\* The read task runs for the first time.
read_begins(r) ==
    /\ tcp.pc[r] = "created" /\ ~tcp.cancel[r]
    /\ tcp' = Top(tcp, r)
    /\ tev' = TEv("read", r)
    /\ UNCHANGED <<supVars, hubVars, clientVars, ordVars, objVars>>

\* writer.wait_closed() returns.
read_closed(r) ==
    /\ tcp.pc[r] = "closing" /\ ~tcp.cancel[r]
    /\ tcp' = [tcp EXCEPT !.pc[r] = "connecting"]
    /\ tev' = TEv("wait_closed", r)
    /\ UNCHANGED <<supVars, hubVars, clientVars, ordVars, objVars>>

\* open_connection returns: self.reader, self.writer are the new connection.
read_connected(r) ==
    /\ tcp.pc[r] = "connecting" /\ ~tcp.cancel[r]
    /\ tcp.conn[r] = "open" => tcp.leaked < MaxLeaked
    /\ tcp' = [tcp EXCEPT !.leaked = IF tcp.conn[r] = "open" THEN @ + 1 ELSE @,
                          !.conn[r] = "open",
                          !.writer_by = r,
                          !.pc[r] = "reading"]
    /\ tev' = TEv("connected", r)
    /\ UNCHANGED <<supVars, hubVars, clientVars, ordVars, objVars>>

\* open_connection raises OSError (ConnectionRefusedError, ...): warning,
\* sleep(delay), continue.
read_refused(r) ==
    /\ tcp.pc[r] = "connecting" /\ ~tcp.cancel[r]
    /\ tcp' = [tcp EXCEPT !.pc[r] = "sleeping"]
    /\ tev' = TEv("os_error", r)
    /\ UNCHANGED <<supVars, hubVars, clientVars, ordVars, objVars>>

\* open_connection raises anything else: warning, await self.stop(), return.
read_unknown_error(r) ==
    /\ tcp.pc[r] = "connecting" /\ ~tcp.cancel[r]
    /\ tcp' = SelfStop(tcp, r)
    /\ tev' = TEv("unknown_error", r)
    /\ UNCHANGED <<supVars, hubVars, clientVars, ordVars, objVars>>

\* _read_internal returns points or raises TimeoutError or another Exception;
\* in each case the finally clause closes the writer and sleeps.
ReadOutcomes == {"points", "timeout", "error"}

read_replied(r, o) ==
    /\ tcp.pc[r] = "reading" /\ ~tcp.cancel[r]
    /\ tcp' = [CloseWriter(tcp) EXCEPT !.pc[r] = "sleeping"]
    /\ tev' = TEv(o, r)
    /\ UNCHANGED <<supVars, hubVars, clientVars, ordVars, objVars>>

\* sleep(delay) returns: next iteration.
read_slept(r) ==
    /\ tcp.pc[r] = "sleeping" /\ ~tcp.cancel[r]
    /\ tcp' = Top(tcp, r)
    /\ tev' = TEv("slept", r)
    /\ UNCHANGED <<supVars, hubVars, clientVars, ordVars, objVars>>

\* CancelledError is raised in the task where it is suspended.
read_cancelled(r) ==
    /\ tcp.cancel[r]
    /\ LET st == [tcp EXCEPT !.cancel[r] = FALSE]
       IN  tcp' =
             CASE tcp.pc[r] = "created" -> [st EXCEPT !.pc[r] = "cancelled"]
               [] tcp.pc[r] \in {"closing", "connecting"} -> SelfStop(st, r)
               [] tcp.pc[r] = "reading" ->
                     [CloseWriter(st) EXCEPT !.pc[r] = "draining"]
               [] tcp.pc[r] \in {"sleeping", "draining"} ->
                     [st EXCEPT !.pc[r] = "cancelled"]
               [] tcp.pc[r] = "stopping" ->
                     \* suppressed in stop(), which returns; read() returns
                     [st EXCEPT !.pc[r] = "done", !.awaits[r] = 0]
    /\ tev' = TEv("cancelled", r)
    /\ UNCHANGED <<supVars, hubVars, clientVars, ordVars, objVars>>

\* The sleep of the finally clause returns and CancelledError leaves read().
read_drained(r) ==
    /\ tcp.pc[r] = "draining" /\ ~tcp.cancel[r]
    /\ tcp' = [tcp EXCEPT !.pc[r] = "cancelled"]
    /\ tev' = TEv("drained", r)
    /\ UNCHANGED <<supVars, hubVars, clientVars, ordVars, objVars>>

\* The task the reader's own stop() awaits has finished: read() returns.
read_stop_resumes(r) ==
    /\ tcp.pc[r] = "stopping" /\ ~tcp.cancel[r]
    /\ tcp.awaits[r] # r
    /\ Finished(tcp, tcp.awaits[r])
    /\ tcp' = [StopAwaited(tcp, tcp.awaits[r]) EXCEPT !.pc[r] = "done", !.awaits[r] = 0]
    /\ tev' = TEv("stop_returned", r)
    /\ UNCHANGED <<supVars, hubVars, clientVars, ordVars, objVars>>

\* ------------------------------------------------------------- the hub

Obs == {"p", "q"}
TagKeys == {"observatory", "source", "cerebro"}

\* Most Cerebro.on_next calls in a run, and most measurements in a batch.
MaxPublish == 2
MaxPoints == 1

\* The values a source puts in a measurement, and what the hub may hold: a tag
\* is absent (None), set by the source ("s") or set by the hub ("h"); a time is
\* absent or the source's own.  A source tags a measurement with every key or
\* with none.  CtorTags are the `tags` a caller may give to Cerebro(...);
\* HubTags are those that name no "cerebro" tag.
SourceTags == {[k \in TagKeys |-> v] : v \in {None, "s"}}
CtorTags == [TagKeys -> {None, "h"}]
HubTags == {t \in CtorTags : t["cerebro"] = None}
SourceTimes == {7}
NoTime == 0 - 1
Points == [time : {NoTime} \cup SourceTimes, tags : SourceTags]

RECURSIVE SeqsUpTo(_, _)
SeqsUpTo(S, n) ==
    IF n = 0 THEN {<<>>}
    ELSE LET shorter == SeqsUpTo(S, n - 1)
         IN  shorter \cup {Append(q, x) : q \in {r \in shorter : Len(r) = n - 1}, x \in S}

\* DataPoints(bucket, data): data is a list of measurements, or None (is_none,
\* and then the list is empty here).
Batches ==
    {b \in [bucket : {None, "sensors"}, is_none : BOOLEAN,
            data : SeqsUpTo(Points, MaxPoints)] : b.is_none => b.data = <<>>}

\* time.time() at the call, in seconds.
Clock == {1, 2}

\* int((time.time() + self._offset / 1e3) * 1e9), kept in milliseconds here
\* (the code's nanoseconds divided by 10^6).
MeasTime(now, off) == now * 1000 + off

\* Update as it would be if the point's own tags were kept on a collision.
UpdateSourceWins(ptags, htags) ==
    [k \in TagKeys |-> IF ptags[k] # None THEN ptags[k] ELSE htags[k]]

\* dict.update(self.tags): every key the hub defines replaces the point's.
Update(ptags, htags) ==
    [k \in TagKeys |-> IF htags[k] # None THEN htags[k] ELSE ptags[k]]

\* The for loop of Cerebro.on_next over the measurements.
Normalise(data, now) ==
    [i \in DOMAIN data |->
        [time |-> IF data[i].time = NoTime THEN MeasTime(now, offset) ELSE data[i].time,
         tags |-> Update(data[i].tags, tags)]]

\* InfluxDB.on_next: ValueError when neither the batch nor the observer names
\* a bucket; an ApiException of the write is caught and logged, any other
\* error of the write leaves on_next.
ObserverRaises(o, b, w) ==
    \/ (b.bucket = None /\ default_bucket[o] = None)
    \/ w = "error"

WriteOutcomes == {"ok", "ApiException", "error"}

\* Subject.on_next: `for observer in observers: observer.on_next(value)`; an
\* exception leaves the loop.  The observers whose on_next was called, in order.
RECURSIVE Called(_, _, _)
Called(obs, b, w) ==
    IF obs = <<>> THEN <<>>
    ELSE IF ObserverRaises(Head(obs), b, w) THEN <<Head(obs)>>
    ELSE <<Head(obs)>> \o Called(Tail(obs), b, w)

Range(q) == {q[i] : i \in DOMAIN q}

NoPub == [id |-> 0, data |-> <<>>, called |-> {}, failed |-> {}, raised |-> FALSE,
          subscribed |-> {}, sent |-> <<>>, now |-> 0]

\* set_cerebro as it would be if the hub replayed the batches published so
\* far to a new subscriber.
set_cerebroReplay(o) ==
    /\ o \notin Range(observers)
    /\ observers' = Append(observers, o)
    /\ received' = [received EXCEPT ![o] = @ \o [i \in 1 .. published |-> i]]
    /\ UNCHANGED <<tags, offset, clock_timers, default_bucket, published, lastPub, lastNtp>>
    /\ UNCHANGED <<supVars, clientVars, tcpVars, ordVars, objVars>>

\* Observer.set_cerebro: the observer subscribes to the hub.
set_cerebro(o) ==
    /\ o \notin Range(observers)
    /\ observers' = Append(observers, o)
    /\ UNCHANGED <<tags, offset, clock_timers, default_bucket, received, published, lastPub, lastNtp>>
    /\ UNCHANGED <<supVars, clientVars, tcpVars, ordVars, objVars>>

\* NoData as it would be if on_next returned early for None only.
NoDataOnlyNone(b) == b.is_none

\* `data.data == [] or data.data is None`: on_next returns at once.
NoData(b) == b.data = <<>> \/ b.is_none

\* Cerebro.on_next(data), called by a source that emits batch b at time now;
\* w is what the write to the database does.
Publish(b, now, w) ==
    /\ published < MaxPublish
    /\ published' = published + 1
    /\ IF NoData(b)
       THEN /\ lastPub' = [NoPub EXCEPT !.id = published + 1,
                                        !.subscribed = Range(observers)]
            /\ UNCHANGED received
       ELSE LET nb == [bucket |-> b.bucket, data |-> Normalise(b.data, now)]
                c == Called(observers, nb, w)
                bad == {o \in Range(c) : ObserverRaises(o, nb, w)}
            IN  /\ received' = [o \in Obs |->
                        IF o \in Range(c) THEN Append(received[o], published + 1)
                        ELSE received[o]]
                /\ lastPub' = [id |-> published + 1, data |-> nb.data,
                               called |-> Range(c), failed |-> bad,
                               raised |-> bad # {},
                               subscribed |-> Range(observers),
                               sent |-> b.data, now |-> now]
    /\ UNCHANGED <<tags, offset, clock_timers, observers, default_bucket, lastNtp>>

\* A publish whose way to the hub is not looked at.
on_next(b, now, w) ==
    /\ Publish(b, now, w)
    /\ UNCHANGED <<supVars, clientVars, tcpVars, ordVars, objVars>>

\* ----------------------------------------- from the sources to the hub

\* Source "a" gets its data through a ClientProtocol (ActorClientSource),
\* source "b" emits from its own read task (TCPSource).
Emitters == {"a", "b"}

\* Most chunks or batches a source produces in a run.
MaxEmit == 2

NothingEmitted ==
    /\ calls = <<>>
    /\ emitted = [s \in Emitters |-> 0]
    /\ origin = <<>>

Emission(s, n) == [src |-> s, seq |-> n]

\* The loop runs the callbacks of call_soon oldest first; as it would be if it
\* ran the newest first.
NewestCall(q) == Len(q)

NextCall(q) == 1

Without(q, i) == [j \in 1 .. Len(q) - 1 |-> IF j < i THEN q[j] ELSE q[j + 1]]

\* ClientProtocol.data_received: call_soon(self._on_received, data).
data_received(s) ==
    /\ s = "a"
    /\ emitted[s] < MaxEmit
    /\ emitted' = [emitted EXCEPT ![s] = @ + 1]
    /\ calls' = Append(calls, Emission(s, emitted[s] + 1))
    /\ origin' = origin
    /\ UNCHANGED <<supVars, hubVars, clientVars, tcpVars, objVars>>

\* The loop runs the callback: ActorClientSource._handle_reply, which ends with
\* self.on_next(data_points), that is Cerebro.on_next.
handle_reply(b, now, w) ==
    /\ calls # <<>>
    /\ Publish(b, now, w)
    /\ origin' = Append(origin, calls[NextCall(calls)])
    /\ calls' = Without(calls, NextCall(calls))
    /\ emitted' = emitted
    /\ UNCHANGED <<supVars, clientVars, tcpVars, objVars>>

\* TCPSource.read: self.on_next(DataPoints(...)) from the read task.
read_emits(s, b, now, w) ==
    /\ s = "b"
    /\ emitted[s] < MaxEmit
    /\ Publish(b, now, w)
    /\ emitted' = [emitted EXCEPT ![s] = @ + 1]
    /\ origin' = Append(origin, Emission(s, emitted[s] + 1))
    /\ calls' = calls
    /\ UNCHANGED <<supVars, clientVars, tcpVars, objVars>>

\* NewOffset as it would be if a failed update reset the offset.
NewOffsetReset(r, off) == IF ~r.raises /\ r.delay # 0 THEN r.delay ELSE 0

\* `offset = ntp.request(...).delay; if offset: self._offset = offset`, inside
\* try ... except Exception.
NewOffset(r, off) == IF ~r.raises /\ r.delay # 0 THEN r.delay ELSE off

\* Rescheduled as it would be if call_later were inside the try block.
RescheduledUnlessRaised(r, n) == IF r.raises THEN n - 1 ELSE (n - 1) + 1

\* The timers pending after a call that one of n pending timers started:
\* `self.loop.call_later(3600.0, self.update_time_offset, server)` is the last
\* statement, outside the try block.
Rescheduled(r, n) == (n - 1) + 1

NoNtp == [tried |-> FALSE, raises |-> FALSE, delay |-> 0, warned |-> FALSE, before |-> 0]

\* Cerebro.update_time_offset: r is what ntp.request(...) does: it raises, or
\* gives a reply with a delay (ntplib: a number of seconds).  warnings.warn is
\* called in the except clause only.
update_time_offset(r) ==
    /\ clock_timers > 0
    /\ offset' = NewOffset(r, offset)
    /\ clock_timers' = Rescheduled(r, clock_timers)
    /\ lastNtp' = [tried |-> TRUE, raises |-> r.raises, delay |-> r.delay,
                   warned |-> r.raises, before |-> offset]
    /\ UNCHANGED <<tags, observers, default_bucket, received, published, lastPub>>
    /\ UNCHANGED <<supVars, clientVars, tcpVars, ordVars, objVars>>

NtpReplies == {[raises |-> TRUE, delay |-> 0]} \cup [raises : {FALSE}, delay : {0, 5}]

\* ------------------------------------------------------ the hub object

InstanceNames == {"cerebro", "lvm"}

\* The keyword arguments of a call Cerebro(...); sources and observers are left
\* at their defaults, the empty lists.
CtorArgs == [name : InstanceNames, tags : CtorTags, config : {None, "file"}]

NoArgs == [name |-> None, tags |-> [k \in TagKeys |-> None], config |-> None]

\* __parse_config__ as it would be if it put the default name in the arguments.
parse_configDefaultName(kw) ==
    [raised |-> kw.config # None, kw |-> [kw EXCEPT !.name = "cerebro"]]

\* Cerebellum.__parse_config__: without a config the arguments come back as
\* they are.  With one, the method reaches its end without a return statement
\* (or raises ValueError), so `args, kwargs = ...` in __call__ raises.
parse_config(kw) == [raised |-> kw.config # None, kw |-> kw]

\* No Cerebro object yet.
NoCerebro == [made |-> FALSE, name |-> None, status_server |-> "unset", args |-> NoArgs]

\* The attributes Cerebro.__init__ sets that are not hub variables of their
\* own: self.name = name, self.status_server = None.  args is what the caller
\* passed to Cerebro(...), kept also when the call raised.
CerebroMade(n, kw) == [made |-> TRUE, name |-> n, status_server |-> None, args |-> kw]

NoOffset == 0 - 1

\* Cerebellum.__call__ with keyword arguments kw: __parse_config__, then
\* Cerebro.__init__ (Subject.__init__, the SourceList of no sources, the tags,
\* the offset, call_soon(update_time_offset), status_server).
construct(kw) ==
    /\ ~cerebro.made
    /\ LET p == parse_config(kw)
       IN  IF p.raised
           THEN /\ cerebro' = [cerebro EXCEPT !.args = kw]
                /\ UNCHANGED <<sup, list, name_to_source, tags, offset, clock_timers,
                               observers>>
           ELSE /\ cerebro' = CerebroMade(p.kw.name, kw)
                /\ observers' = <<>>
                /\ list' = <<>>
                /\ name_to_source' = [n \in Names |-> None]
                /\ sup' = [s \in Objs |-> "none"]
                /\ tags' = p.kw.tags
                /\ offset' = 0
                /\ clock_timers' = clock_timers + 1
    /\ UNCHANGED <<kind, name, src, touched, frame, hubStop, hubAt, ev>>
    /\ UNCHANGED <<default_bucket, received, published, lastPub, lastNtp>>
    /\ UNCHANGED <<clientVars, tcpVars, ordVars, tron>>

\* Cerebro.start: the status server is created.
hub_start ==
    /\ cerebro.made
    /\ cerebro' = [cerebro EXCEPT !.status_server = "server"]
    /\ UNCHANGED <<supVars, hubVars, clientVars, tcpVars, ordVars, tron>>

\* ----------------------------------------------------------- TronSource

Actors == {"tcc", "apo"}
KeyNames == {"k1", "k2"}

NoFilter == [a \in {} |-> {}]

\* The `keywords` argument: None, or a mapping from actors to keyword names.
KeywordArgs ==
    {[given |-> FALSE, by |-> NoFilter]}
        \cup {[given |-> TRUE, by |-> f] :
                f \in UNION {[A -> SUBSET KeyNames] : A \in SUBSET Actors}}

\* The `tags` argument of a source: nothing, or an observatory tag.
SourceCtorTags ==
    {t \in [TagKeys -> {None, "s"}] : t["source"] = None /\ t["cerebro"] = None}

\* Source.__init__: self.tags = tags.copy(); self.tags.update({"source": ...}).
BaseTags(tg) == [tg EXCEPT !["source"] = "s"]

NoKey == [actor |-> None, name |-> None, values |-> 0, recorded |-> FALSE]

\* TronSource.__init__; given is the tags argument, last the keyword that
\* process_keyword saw last and whether it made a measurement of it.
TronMade(kw, tg) == [keywords |-> kw, given |-> tg, tags |-> BaseTags(tg), last |-> NoKey]

\* `if self.keywords: if actor in self.keywords and name in
\* self.keywords[actor]: return`.
Skipped(kw, actor, n) ==
    /\ kw.given
    /\ DOMAIN kw.by # {}
    /\ actor \in DOMAIN kw.by
    /\ n \in kw.by[actor]

\* TronSource.process_keyword for keyword n of an actor, with nv values: one
\* measurement per value, each with "tags": self.tags (the source's own
\* mapping, not the copy made two lines above), then self.on_next(...), that
\* is Cerebro.on_next, whose point["tags"].update(self.tags) writes into that
\* mapping.
process_keyword(actor, n, nv, now) ==
    IF Skipped(tron.keywords, actor, n) \/ nv = 0
    THEN /\ tron' = [tron EXCEPT !.last =
                        [actor |-> actor, name |-> n, values |-> nv, recorded |-> FALSE]]
         /\ UNCHANGED <<supVars, hubVars, clientVars, tcpVars, ordVars, cerebro>>
    ELSE LET b == [bucket |-> None, is_none |-> FALSE,
                   data |-> [i \in 1 .. nv |-> [time |-> NoTime, tags |-> tron.tags]]]
         IN  /\ Publish(b, now, "ok")
             /\ tron' = [tron EXCEPT
                            !.tags = Update(tron.tags, tags),
                            !.last = [actor |-> actor, name |-> n, values |-> nv,
                                      recorded |-> TRUE]]
             /\ UNCHANGED <<supVars, clientVars, tcpVars, ordVars, cerebro>>

\* The hub object made as Cerebro("cerebro"), a TronSource made without
\* keywords or tags.
ObjsConstructed ==
    /\ cerebro = CerebroMade("cerebro", [NoArgs EXCEPT !.name = "cerebro"])
    /\ tron = TronMade([given |-> FALSE, by |-> NoFilter], [k \in TagKeys |-> None])

\* Cerebro.__init__ with tags tg, before any observer is subscribed.
HubConstructed(tg, db) ==
    /\ tags = tg
    /\ offset = 0
    /\ clock_timers = 1
    /\ observers = <<>>
    /\ default_bucket = db
    /\ received = [o \in Obs |-> <<>>]
    /\ published = 0
    /\ lastPub = NoPub
    /\ lastNtp = NoNtp

\* No source registered, nothing requested.
SupConstructed ==
    /\ src = [s \in Objs |-> SrcInit]
    /\ sup = [s \in Objs |-> "none"]
    /\ touched = [s \in Objs |-> FALSE]
    /\ list = <<>>
    /\ name_to_source = [n \in Names |-> None]
    /\ frame = [o \in Owners |-> Idle]
    /\ hubStop = "idle"
    /\ hubAt = 0
    /\ ev = NoEv

InitHub ==
    /\ client = ClientConstructed(NoCap, TRUE)
    /\ cev = CEv("none", FALSE)
    /\ tcp = TCPConstructed
    /\ tev = TEv("none", 0)
    /\ NothingEmitted
    /\ ObjsConstructed
    /\ \E tg \in HubTags, db \in [Obs -> {None, "db"}] : HubConstructed(tg, db)
    /\ kind = [s \in Objs |-> "tcp"]
    /\ name = [s \in Objs |-> IF s = "o1" THEN "a" ELSE "b"]
    /\ SupConstructed

NextHub ==
    \/ \E o \in Obs : set_cerebro(o)
    \/ \E b \in Batches, now \in Clock, w \in WriteOutcomes : on_next(b, now, w)
    \/ \E r \in NtpReplies : update_time_offset(r)

SpecHub == InitHub /\ [][NextHub]_vars

\* The loop runs the callback of a clock timer that is due.
ClockFair == WF_vars(\E r \in NtpReplies : update_time_offset(r))

FairHub == InitHub /\ [][NextHub]_vars /\ ClockFair

\* --------------------------------------------------------------- Init

Init ==
    /\ client = ClientConstructed(NoCap, TRUE)
    /\ cev = CEv("none", FALSE)
    /\ tcp = TCPConstructed
    /\ tev = TEv("none", 0)
    /\ NothingEmitted
    /\ ObjsConstructed
    /\ kind \in [Objs -> Kinds]
    /\ kind["o2"] = "actor"
    /\ name \in [Objs -> Names]
    /\ name["o1"] = "a"
    /\ SupConstructed
    /\ HubConstructed([k \in TagKeys |-> None], [o \in Obs |-> None])

Next ==
    \/ \E s \in Objs : add_source(s)
    \/ \E s \in Objs : start_source(s)
    \/ \E s \in Objs : start_connected(s)
    \/ \E s \in Objs : start_failed(s)
    \/ \E s \in Objs : start_timeout(s)
    \/ \E n \in Names : remove_source(n)
    \/ \E i \in 1..Cardinality(Objs) : pop(i)
    \/ \E n \in Names : request("c1", "restart", n)
    \/ \E o \in Owners : run_request(o)
    \/ \E s \in Objs : task_cancelled(s)
    \/ \E o \in Owners : stop_resumed(o)
    \/ \E o \in Owners : connected(o)
    \/ \E o \in Owners : connect_failed(o)
    \/ stop
    \/ busy_wait

Spec == Init /\ [][Next]_vars

\* ------------------------------------------- the Source contract alone

\* One source object of any class, driven directly by two callers through
\* start(), stop() and restart(); no SourceList.
InitSource ==
    /\ client = ClientConstructed(NoCap, TRUE)
    /\ cev = CEv("none", FALSE)
    /\ tcp = TCPConstructed
    /\ tev = TEv("none", 0)
    /\ NothingEmitted
    /\ ObjsConstructed
    /\ kind \in [Objs -> Kinds]
    /\ kind["o2"] = "tcp"
    /\ name = [s \in Objs |-> IF s = "o1" THEN "a" ELSE "b"]
    /\ SupConstructed
    /\ HubConstructed([k \in TagKeys |-> None], [o \in Obs |-> None])

NextSource ==
    \/ \E c \in Callers, op \in {"start", "stop", "restart"} : request(c, op, "o1")
    \/ \E o \in Callers : run_request(o)
    \/ \E s \in Objs : task_cancelled(s)
    \/ \E o \in Callers : stop_resumed(o)
    \/ \E o \in Callers : connected(o)
    \/ \E o \in Callers : connect_failed(o)

SpecSource == InitSource /\ [][NextSource]_vars

\* ------------------------------------------- the reconnecting client alone

\* A client as constructed, of the class itself or of a subclass that caps
\* the retries or turns the jitter off.
InitClient ==
    /\ \E mr \in {NoCap, RetryCap}, j \in BOOLEAN : client = ClientConstructed(mr, j)
    /\ cev = CEv("none", FALSE)
    /\ tcp = TCPConstructed
    /\ tev = TEv("none", 0)
    /\ NothingEmitted
    /\ ObjsConstructed
    /\ kind = [s \in Objs |-> "actor"]
    /\ name = [s \in Objs |-> IF s = "o1" THEN "a" ELSE "b"]
    /\ SupConstructed
    /\ HubConstructed([k \in TagKeys |-> None], [o \in Obs |-> None])

NextClient ==
    \/ connect
    \/ connect_task_runs
    \/ \E h \in {"held", "stray"} : connect_succeeds(h)
    \/ \E h \in {"held", "stray"} : connect_raises(h)
    \/ connect_cancelled
    \/ \E z \in Draws : connection_failed(z)
    \/ \E z \in Draws : connection_lost(z)
    \/ \E h \in {"held", "stray"} : timer_fires(h)
    \/ stop_trying

SpecClient == InitClient /\ [][NextClient]_vars

\* A client of the class itself (max_retries unset) on which stop_trying() is
\* never called.  The loop runs the tasks and callbacks that are ready and
\* fires the timers that are due; connect() calls and what the network does
\* are up to the environment.
InitRetrying ==
    /\ \E j \in BOOLEAN : client = ClientConstructed(NoCap, j)
    /\ cev = CEv("none", FALSE)
    /\ tcp = TCPConstructed
    /\ tev = TEv("none", 0)
    /\ NothingEmitted
    /\ ObjsConstructed
    /\ kind = [s \in Objs |-> "actor"]
    /\ name = [s \in Objs |-> IF s = "o1" THEN "a" ELSE "b"]
    /\ SupConstructed
    /\ HubConstructed([k \in TagKeys |-> None], [o \in Obs |-> None])

\* Most failures in a run of this client.
MaxRun == 4

FewFailures == client.retries + client.failed_calls < MaxRun

\* create_connection raises, a connection is lost: while the run is short.
attempt_raises == FewFailures /\ connect_raises("held")

connection_closes(z) == FewFailures /\ connection_lost(z)

NextRetrying ==
    \/ connect
    \/ connect_task_runs
    \/ connect_succeeds("held")
    \/ attempt_raises
    \/ \E z \in Draws : connection_failed(z)
    \/ \E z \in Draws : connection_closes(z)
    \/ \E h \in {"held", "stray"} : timer_fires(h)

ClientLoopFair ==
    /\ WF_vars(connect_task_runs)
    /\ WF_vars(\E z \in Draws : connection_failed(z))
    /\ \A h \in {"held", "stray"} : WF_vars(timer_fires(h))

\* create_connection returns or raises in the end.
NetworkAnswers == WF_vars(connect_succeeds("held") \/ attempt_raises)

FairRetrying ==
    InitRetrying /\ [][NextRetrying]_vars /\ ClientLoopFair /\ NetworkAnswers

\* ------------------------------- ActorClientSource and its ClientProtocol

\* loop.create_connection(lambda: ClientProtocol(self._handle_reply), host,
\* port) returned: a protocol constructed with no connection arguments, with
\* one open connection.  _connect was not involved, connected stays False.
ProtocolMade == [ClientConstructed(NoCap, TRUE) EXCEPT !.transports = 1]

\* start() of the actor source is requested (once), stop() at any time.
start_requested ==
    /\ ~src["o1"].transport
    /\ request("c1", "start", "o1")

stop_requested == request("c1", "stop", "o1")

\* ActorClientSource.start resumes with the connection made.
actor_connected(o) ==
    /\ LoopFree
    /\ frame[o].pc = "connecting"
    /\ LET f == frame[o]
           s == f.src
           st == StartBody(kind[s], src[s])
       IN  /\ kind[s] = "actor"
           /\ Bounded(st)
           /\ src' = [src EXCEPT ![s] = st]
           /\ ev' = Ev(f.op, s, f.arg, "ok")
    /\ frame' = [frame EXCEPT ![o] = Idle]
    /\ client' = ProtocolMade
    /\ cev' = CEv("made", FALSE)
    /\ UNCHANGED <<kind, name, sup, touched, list, name_to_source, hubStop, hubAt, hubVars, tcpVars, ordVars, objVars>>

\* One actor source driven by one caller.  stop() ends with
\* self.transport.close(), after which the loop calls connection_lost; the
\* network may drop the connection at any time before.  The protocol's own
\* _connect calls create_connection with no host, port or socket, which raises.
InitActor ==
    /\ client = ClientConstructed(NoCap, TRUE)
    /\ cev = CEv("none", FALSE)
    /\ tcp = TCPConstructed
    /\ tev = TEv("none", 0)
    /\ NothingEmitted
    /\ ObjsConstructed
    /\ kind = [s \in Objs |-> IF s = "o1" THEN "actor" ELSE "tcp"]
    /\ name = [s \in Objs |-> IF s = "o1" THEN "a" ELSE "b"]
    /\ SupConstructed
    /\ HubConstructed([k \in TagKeys |-> None], [o \in Obs |-> None])

NextActor ==
    \/ start_requested
    \/ stop_requested
    \/ run_request("c1")
    \/ actor_connected("c1")
    \/ connect_failed("c1")
    \/ task_cancelled("o1")
    \/ stop_resumed("c1")
    \/ \E z \in Draws : connection_lost(z)
    \/ \E h \in {"held", "stray"} : timer_fires(h)
    \/ connect_task_runs
    \/ connect_raises("held")
    \/ \E z \in Draws : connection_failed(z)

SpecActor == InitActor /\ [][NextActor]_vars

\* stop() of the actor source has completed.
StoppedActor == src["o1"].transport /\ ~src["o1"].running

\* ------------------------------------------------------ a TCPSource alone

InitTcp ==
    /\ client = ClientConstructed(NoCap, TRUE)
    /\ cev = CEv("none", FALSE)
    /\ tcp = TCPConstructed
    /\ tev = TEv("none", 0)
    /\ NothingEmitted
    /\ ObjsConstructed
    /\ kind = [s \in Objs |-> "tcp"]
    /\ name = [s \in Objs |-> IF s = "o1" THEN "a" ELSE "b"]
    /\ SupConstructed
    /\ HubConstructed([k \in TagKeys |-> None], [o \in Obs |-> None])

NextTcp ==
    \/ tcp_start
    \/ tcp_stop
    \/ tcp_stop_resumes
    \/ \E r \in Readers :
          \/ read_begins(r)
          \/ read_closed(r)
          \/ read_connected(r)
          \/ read_refused(r)
          \/ read_unknown_error(r)
          \/ \E o \in ReadOutcomes : read_replied(r, o)
          \/ read_slept(r)
          \/ read_cancelled(r)
          \/ read_drained(r)
          \/ read_stop_resumes(r)

SpecTcp == InitTcp /\ [][NextTcp]_vars

\* ----------------------------------- two sources publishing to the hub

InitOrder ==
    /\ client = ClientConstructed(NoCap, TRUE)
    /\ cev = CEv("none", FALSE)
    /\ tcp = TCPConstructed
    /\ tev = TEv("none", 0)
    /\ NothingEmitted
    /\ ObjsConstructed
    /\ HubConstructed([k \in TagKeys |-> None], [o \in Obs |-> "db"])
    /\ kind = [s \in Objs |-> IF s = "o1" THEN "actor" ELSE "tcp"]
    /\ name = [s \in Objs |-> IF s = "o1" THEN "a" ELSE "b"]
    /\ SupConstructed

NextOrder ==
    \/ \E o \in Obs : set_cerebro(o)
    \/ \E s \in Emitters : data_received(s)
    \/ \E b \in Batches, now \in Clock, w \in WriteOutcomes : handle_reply(b, now, w)
    \/ \E s \in Emitters, b \in Batches, now \in Clock, w \in WriteOutcomes :
          read_emits(s, b, now, w)

SpecOrder == InitOrder /\ [][NextOrder]_vars

\* ------------------------------------------------------ status listing

\* The reply to "status": {source.name: source.running for source in self.sources}
\* (a later entry of the same name replaces an earlier one).
ListedNames == {name[list[i]] : i \in DOMAIN list}

LastNamed(n) ==
    list[CHOOSE i \in DOMAIN list :
            /\ name[list[i]] = n
            /\ \A j \in DOMAIN list : name[list[j]] = n => j <= i]

Status == [n \in ListedNames |-> src[LastNamed(n)].running]

\* ------------------------------------------------------------- fairness

\* What the event loop guarantees: a task that is ready to run is run, a timer
\* that is due fires, running code goes on.  Requests, connections being made
\* or refused, and Cerebro.stop being called are up to the environment.
LoopFair ==
    /\ \A s \in Objs : WF_vars(start_source(s))
    /\ \A s \in Objs : WF_vars(start_timeout(s))
    /\ \A s \in Objs : WF_vars(task_cancelled(s))
    /\ \A o \in Owners : WF_vars(run_request(o))
    /\ \A o \in Owners : WF_vars(stop_resumed(o))

FairSpec == Init /\ [][Next]_vars /\ LoopFair /\ WF_vars(busy_wait)

\* The same without Cerebro.stop: the hub is never stopped.
NextRunning ==
    \/ \E s \in Objs : add_source(s)
    \/ \E s \in Objs : start_source(s)
    \/ \E s \in Objs : start_connected(s)
    \/ \E s \in Objs : start_failed(s)
    \/ \E s \in Objs : start_timeout(s)
    \/ \E n \in Names : remove_source(n)
    \/ \E i \in 1..Cardinality(Objs) : pop(i)
    \/ \E n \in Names : request("c1", "restart", n)
    \/ \E o \in Callers : run_request(o)
    \/ \E s \in Objs : task_cancelled(s)
    \/ \E o \in Callers : stop_resumed(o)
    \/ \E o \in Callers : connected(o)
    \/ \E o \in Callers : connect_failed(o)

FairRunning == Init /\ [][NextRunning]_vars /\ LoopFair

\* ------------------------------------- restarts from two connections

\* One source of any class, named "a", that was added and whose start() has
\* returned; nobody has asked for anything yet.
InitRestarts ==
    /\ client = ClientConstructed(NoCap, TRUE)
    /\ cev = CEv("none", FALSE)
    /\ tcp = TCPConstructed
    /\ tev = TEv("none", 0)
    /\ NothingEmitted
    /\ ObjsConstructed
    /\ kind \in [Objs -> Kinds]
    /\ kind["o2"] = "tcp"
    /\ name = [s \in Objs |-> IF s = "o1" THEN "a" ELSE "b"]
    /\ src = [s \in Objs |-> IF s = "o1" THEN StartBody(kind[s], SrcInit) ELSE SrcInit]
    /\ sup = [s \in Objs |-> IF s = "o1" THEN "ok" ELSE "none"]
    /\ touched = [s \in Objs |-> FALSE]
    /\ list = <<"o1">>
    /\ name_to_source = [n \in Names |-> IF n = "a" THEN "o1" ELSE None]
    /\ frame = [o \in Owners |-> Idle]
    /\ hubStop = "idle"
    /\ hubAt = 0
    /\ ev = NoEv
    /\ HubConstructed([k \in TagKeys |-> None], [o \in Obs |-> None])

\* "restart a" arrives on either of two status-server connections.
NextRestarts ==
    \/ \E c \in Callers : request(c, "restart", "a")
    \/ \E o \in Callers : run_request(o)
    \/ \E s \in Objs : task_cancelled(s)
    \/ \E o \in Callers : stop_resumed(o)
    \/ \E o \in Callers : connected(o)
    \/ \E o \in Callers : connect_failed(o)

SpecRestarts == InitRestarts /\ [][NextRestarts]_vars

\* ------------------------------------------------- making the hub

\* Before Cerebro(...) is called.
InitMake ==
    /\ client = ClientConstructed(NoCap, TRUE)
    /\ cev = CEv("none", FALSE)
    /\ tcp = TCPConstructed
    /\ tev = TEv("none", 0)
    /\ NothingEmitted
    /\ cerebro = NoCerebro
    /\ tron = TronMade([given |-> FALSE, by |-> NoFilter], [k \in TagKeys |-> None])
    /\ kind = [s \in Objs |-> "tcp"]
    /\ name = [s \in Objs |-> IF s = "o1" THEN "a" ELSE "b"]
    /\ SupConstructed
    /\ tags = [k \in TagKeys |-> None]
    /\ offset = NoOffset
    /\ clock_timers = 0
    /\ observers = <<>>
    /\ default_bucket = [o \in Obs |-> "db"]
    /\ received = [o \in Obs |-> <<>>]
    /\ published = 0
    /\ lastPub = NoPub
    /\ lastNtp = NoNtp

NextMake ==
    \/ \E kw \in CtorArgs : construct(kw)
    \/ hub_start
    \/ cerebro.made /\ \E o \in Obs : set_cerebro(o)
    \/ cerebro.made /\ \E r \in NtpReplies : update_time_offset(r)

SpecMake == InitMake /\ [][NextMake]_vars

\* ------------------------------------------- a TronSource and the hub

InitTron ==
    /\ client = ClientConstructed(NoCap, TRUE)
    /\ cev = CEv("none", FALSE)
    /\ tcp = TCPConstructed
    /\ tev = TEv("none", 0)
    /\ NothingEmitted
    /\ cerebro = CerebroMade("cerebro", [NoArgs EXCEPT !.name = "cerebro"])
    /\ \E kw \in KeywordArgs, tg \in SourceCtorTags : tron = TronMade(kw, tg)
    /\ \E tg \in HubTags : HubConstructed(tg, [o \in Obs |-> "db"])
    /\ kind = [s \in Objs |-> "tcp"]
    /\ name = [s \in Objs |-> IF s = "o1" THEN "a" ELSE "b"]
    /\ SupConstructed

NextTron ==
    \E actor \in Actors, n \in KeyNames, nv \in 0 .. MaxPoints, now \in Clock :
        process_keyword(actor, n, nv, now)

SpecTron == InitTron /\ [][NextTron]_vars

\* -------------------------------------------------------- status server

\* A line read by status_server_cb, after decode().strip(), as its words.
Lines ==
    {<<"status">>, <<"restart", "a">>, <<"restart", "b">>, <<"restart">>,
     <<"hello">>, <<"exit">>}

\* `"restart" in command`: some word of the line contains "restart".
HasRestart(l) == \E i \in DOMAIN l : l[i] = "restart"

\* The handler left its loop: by `return None` at end of file or `break` on
\* "exit" (Closed), or by an exception nothing catches (Dead).
Closed == [op |-> "none", arg |-> None, src |-> None, pc |-> "closed"]

Dead == [op |-> "none", arg |-> None, src |-> None, pc |-> "dead"]

StatusEv ==
    [op |-> "status", src |-> None, arg |-> None, res |-> "ok", reply |-> Status]

\* One pass of the while loop of status_server_cb on connection c, from the
\* line read to the next suspension.  "status" writes the listing; a line
\* with "restart" takes command.split()[1] (IndexError when there is no
\* second word, outside the try) and goes on as the restart request of
\* run_request; "exit" leaves the loop; any other line is dropped.
line(c, l) ==
    /\ LoopFree
    /\ frame[c] = Idle
    /\ IF l = <<"status">>
       THEN /\ ev' = StatusEv
            /\ UNCHANGED frame
       ELSE IF HasRestart(l)
       THEN IF Len(l) < 2
            THEN /\ frame' = [frame EXCEPT ![c] = Dead]
                 /\ ev' = Ev("line", None, None, "IndexError")
            ELSE /\ frame' = [frame EXCEPT ![c] =
                                [op |-> "restart", arg |-> l[2], src |-> None, pc |-> "ready"]]
                 /\ ev' = NoEv
       ELSE IF l = <<"exit">>
       THEN /\ frame' = [frame EXCEPT ![c] = Closed]
            /\ ev' = Ev("line", None, None, "exit")
       ELSE /\ ev' = Ev("line", None, None, "noreply")
            /\ UNCHANGED frame
    /\ UNCHANGED <<kind, name, src, sup, touched, list, name_to_source, hubStop, hubAt, hubVars, clientVars, tcpVars, ordVars, objVars>>

\* readline() returns at end of file: `if reader.at_eof(): return None`.
eof(c) ==
    /\ LoopFree
    /\ frame[c] = Idle
    /\ frame' = [frame EXCEPT ![c] = Closed]
    /\ ev' = Ev("line", None, None, "eof")
    /\ UNCHANGED <<kind, name, src, sup, touched, list, name_to_source, hubStop, hubAt, hubVars, clientVars, tcpVars, ordVars, objVars>>

\* SourceList.get(name): ValueError when the name is not in _name_to_source.
get(n) ==
    /\ LoopFree
    /\ ev' = IF name_to_source[n] = None
             THEN Ev("get", None, n, "ValueError")
             ELSE Ev("get", name_to_source[n], n, "ok")
    /\ UNCHANGED <<kind, name, src, sup, touched, list, name_to_source, frame, hubStop, hubAt, hubVars, clientVars, tcpVars, ordVars, objVars>>

\* SourceList.remove(source): source.dispose(), then list.remove(source),
\* which raises ValueError when the source is not in the list.  The name
\* lookup is not touched.
remove(s) ==
    /\ LoopFree
    /\ sup[s] # "none"
    /\ src' = [src EXCEPT ![s].disposed = TRUE]
    /\ list' = ListRemove(list, s)
    /\ ev' = Ev("list_remove", s, name[s],
                IF \E i \in DOMAIN list : list[i] = s THEN "ok" ELSE "ValueError")
    /\ UNCHANGED <<kind, name, sup, touched, name_to_source, frame, hubStop, hubAt, hubVars, clientVars, tcpVars, ordVars, objVars>>

\* SourceList.append(source): add_source(source).
append(s) == add_source(s)

\* A TCPSource or an ActorClientSource named "a" and an ActorClientSource of
\* either name, none of them added yet.
InitServer ==
    /\ client = ClientConstructed(NoCap, TRUE)
    /\ cev = CEv("none", FALSE)
    /\ tcp = TCPConstructed
    /\ tev = TEv("none", 0)
    /\ NothingEmitted
    /\ ObjsConstructed
    /\ kind \in [Objs -> {"tcp", "actor"}]
    /\ kind["o2"] = "actor"
    /\ name \in [Objs -> Names]
    /\ name["o1"] = "a"
    /\ SupConstructed
    /\ HubConstructed([k \in TagKeys |-> None], [o \in Obs |-> None])

\* The registry and one connection to the status server of a hub that is not
\* being stopped.
NextServer ==
    \/ \E s \in Objs : add_source(s)
    \/ \E s \in Objs : start_source(s)
    \/ \E s \in Objs : start_connected(s)
    \/ \E s \in Objs : start_failed(s)
    \/ \E s \in Objs : start_timeout(s)
    \/ \E n \in Names : remove_source(n)
    \/ \E i \in 1..Cardinality(Objs) : pop(i)
    \/ \E s \in Objs : remove(s)
    \/ \E s \in Objs : append(s)
    \/ \E n \in Names : get(n)
    \/ \E l \in Lines : line("c1", l)
    \/ eof("c1")
    \/ run_request("c1")
    \/ \E s \in Objs : task_cancelled(s)
    \/ stop_resumed("c1")
    \/ connected("c1")
    \/ connect_failed("c1")

SpecServer == InitServer /\ [][NextServer]_vars

\* ---------------------------------------------------------------- claims

\* C1: when an observer's on_next raises on a batch, every other subscribed
\* observer still gets that batch and the error does not leave Cerebro.on_next.
C1_ObserverErrorIsolated ==
    lastPub.failed # {}
    => (lastPub.subscribed \subseteq lastPub.called /\ ~lastPub.raised)

\* C2: add_source of a source whose name is already registered fails with a
\* duplicate-name error, leaves the registry and the list unchanged and spawns
\* no start task.
C2_DuplicateNameRejected ==
    [][\A s \in Objs :
          (ev'.op = "add" /\ ev'.src = s /\ sup[s] = "none"
              /\ name_to_source[name[s]] # None)
          => /\ ev'.res = "duplicate"
             /\ list' = list
             /\ name_to_source' = name_to_source
             /\ sup' = sup]_vars

\* C3: for a source with a finite start timeout, a start() that times out or
\* raises leaves running false, and it stays false until a caller restarts the
\* source; a start() that returns leaves running true; the running flags of the
\* other sources do not change in that step.
C3_StartOutcomeMarked ==
    /\ [](\A s \in Objs :
            (HasTimeout(kind[s]) /\ sup[s] \in {"timeout", "raised"} /\ ~touched[s])
            => ~src[s].running)
    /\ [][\A s \in Objs :
            (HasTimeout(kind[s]) /\ sup'[s] # sup[s]
                /\ sup'[s] \in {"ok", "timeout", "raised"})
            => /\ src'[s].running = (sup'[s] = "ok")
               /\ \A t \in Objs \ {s} : src'[t].running = src[t].running]_vars

\* C3 witness: a start has timed out, the source is listed as not running and
\* another source is running.
C3_Witness ==
    \E s \in Objs, t \in Objs :
        /\ s # t
        /\ HasTimeout(kind[s])
        /\ sup[s] = "timeout"
        /\ name[s] \in ListedNames /\ name[s] # name[t]
        /\ Status[name[s]] = FALSE
        /\ src[t].running

\* C4: every source has at most one live read-loop/monitor task.
C4_OneLiveTask == \A s \in Objs : Live(src[s]) <= 1

\* C5: when stop() has returned, running is false and the source references no
\* live task.
C5_StopClearsRunning ==
    (ev.op = "stop" /\ ev.res = "ok")
    => (~src[ev.src].running /\ src[ev.src].tracked = 0)

\* C6: stop() never raises, whatever the state of the source, and leaves
\* running false.
C6_StopAlwaysSafe ==
    ev.op = "stop" => (ev.res = "ok" /\ ~src[ev.src].running)

\* C7: after remove_source of a registered name the source is not running, has
\* no live task and is in neither the name lookup nor the status listing; for
\* an unregistered name it fails and nothing changes.
C7_RemoveStopsSource ==
    /\ [](ev.op = "remove" /\ ev.res = "ok"
            => /\ ~src[ev.src].running
               /\ Live(src[ev.src]) = 0
               /\ name_to_source[ev.arg] = None
               /\ ev.arg \notin ListedNames)
    /\ [][(ev'.op = "remove" /\ ev'.res = "notfound")
            => UNCHANGED <<src, list, name_to_source, sup>>]_vars

\* C8: once SourceList.stop has begun to wait for a stop task, it ends.
C8_StopTerminates == (hubStop = "spin") ~> (hubStop = "done")

\* C9: a "restart <name>" request always gets its reply.
C9_RestartReplies ==
    \A c \in Callers : (frame[c].op = "restart") ~> (frame[c] = Idle)

\* C10: right after a connect attempt succeeds the client is connected, its
\* retry count is 0 and its delay is initial_delay.
C10_SuccessResetsBackoff ==
    cev.op = "succeeded"
    => (client.connected /\ client.retries = 0 /\ client.delay = initial_delay)

\* C11: from one failure to the next the retry delay does not decrease, and it
\* is never above max_delay, with the jitter on or off.
C11_DelayMonotoneCapped ==
    [][cev'.op \in {"connection_failed", "connection_lost"}
        => (client'.delay >= client.delay /\ client'.delay <= max_delay)]_vars

\* C12: once stop_trying() has been called no retry timer fires into
\* connect() and no retry is scheduled.
C12_NoAttemptAfterStopTrying ==
    [][~client.continue_trying
        => /\ cev'.op # "timer"
           /\ client'.call_handle # "pending"
           /\ client'.timers <= client.timers]_vars

\* C13: right after stop_trying() the client has stopped trying, is not
\* connected, has no retry timer pending and no connect attempt in flight; a
\* second call in a row changes nothing.
C13_StopTryingIdempotent ==
    /\ [](cev.op = "stop_trying"
            => /\ ~client.continue_trying
               /\ ~client.connected
               /\ client.call_handle # "pending" /\ client.timers = 0
               /\ InFlight(client) = 0)
    /\ [][(cev.op = "stop_trying" /\ cev'.op = "stop_trying") => client' = client]_vars

\* C14: at most one connect attempt is in flight; connect() during an attempt
\* starts no other; the marker is clear when an attempt has ended.
C14_OneAttemptInFlight ==
    /\ [](InFlight(client) <= 1)
    /\ [](cev.op \in {"succeeded", "raised", "cancelled"} => client.connector = "none")
    /\ [][(cev'.op = "connect" /\ InFlight(client) > 0)
            => InFlight(client') = InFlight(client)]_vars

\* The retry timers pending in the loop, held by the client or not.
PendingTimers(st) == st.timers + (IF st.call_handle = "pending" THEN 1 ELSE 0)

\* C15: with max_retries unset and stop_trying() never called, a connect
\* failure or a connection loss leaves the client not connected with its retry
\* timer pending, schedules exactly one timer, and is followed by a connect
\* attempt that is started after it or is already in flight.
C15_FailureRetried ==
    /\ [](cev.op \in {"connection_failed", "connection_lost"}
            => (~client.connected /\ client.call_handle = "pending"))
    /\ [][cev'.op \in {"connection_failed", "connection_lost"}
            => PendingTimers(client') = PendingTimers(client) + 1]_vars
    /\ (cev.op \in {"connection_failed", "connection_lost"})
            ~> (cev.started \/ client.connector # "none")

\* C15 as stated: every such failure is followed by a connect attempt that is
\* started after it.
C15_EveryFailureNewAttempt ==
    /\ [](cev.op \in {"connection_failed", "connection_lost"}
            => (~client.connected /\ client.call_handle = "pending"))
    /\ (cev.op \in {"connection_failed", "connection_lost"}) ~> cev.started

\* C15 witness: after several failures a retry timer has fired and started a
\* connect attempt.
C15_Witness ==
    /\ cev.op = "timer" /\ cev.started
    /\ client.retries >= 2
    /\ client.max_retries = NoCap /\ client.continue_trying

\* The client has a finite max_retries and has counted more failures than that.
GaveUp(st) == st.max_retries # NoCap /\ st.retries > st.max_retries

\* C16: with a finite max_retries a retry timer is scheduled only for a failure
\* within the cap; the failure that exceeds it schedules none and leaves the
\* client not connected; from then on no retry timer calls connect().
C16_GivesUpAfterCap ==
    /\ [][(client.max_retries # NoCap /\ PendingTimers(client') > PendingTimers(client))
            => client'.retries <= client.max_retries]_vars
    /\ [][(cev'.op \in {"connection_failed", "connection_lost"} /\ GaveUp(client'))
            => (PendingTimers(client') = PendingTimers(client) /\ ~client'.connected)]_vars
    /\ [][GaveUp(client) => cev'.op # "timer"]_vars

\* C17: connected is false at construction and after every connect failure
\* and connection loss, and it turns true only in the step in which a connect
\* attempt succeeds.
C17_ConnectedOnlyBySuccess ==
    /\ ~client.connected
    /\ [](cev.op \in {"connection_failed", "connection_lost"} => ~client.connected)
    /\ [][(~client.connected /\ client'.connected) => cev'.op = "succeeded"]_vars

\* C17 witness: after two failures an attempt has succeeded and the client is
\* connected.
C17_Witness ==
    /\ cev.op = "succeeded"
    /\ client.connected
    /\ client.retries >= 2
    /\ client.transports = 1

\* C18: once stop() of the actor source has completed, no reconnect timer is
\* pending and no connect attempt is started.
C18_StopQuietsClient ==
    /\ [](StoppedActor => PendingTimers(client) = 0)
    /\ [][StoppedActor => ~cev'.started]_vars

\* C19: when stop() of a TCPSource returns, the connection opened by the read
\* task it cancelled is closed, and as long as the source stays stopped none
\* of its connections is open.
C19_StopClosesConnection ==
    /\ (tev.op = "stopped" /\ tev.r # 0) => tcp.conn[tev.r] # "open"
    /\ tcp.phase = "stopped" => OpenTransports(tcp) = 0

\* C20: as long as stop() has not been called no read task has finished, and
\* after every error of the connection or of the communication the read task
\* sleeps for the delay before it connects again.
C20_ReadLoopRetries ==
    /\ ~tcp.stop_called => \A r \in Readers : ~Finished(tcp, r)
    /\ tev.op \in {"os_error", "unknown_error", "timeout", "error"}
          => tcp.pc[tev.r] = "sleeping"

\* The read task created by the last start().
LastStarted(st) ==
    IF \A r \in Readers : st.pc[r] = "none" THEN 0
    ELSE CHOOSE r \in Readers :
            st.pc[r] # "none" /\ \A q \in Readers : st.pc[q] # "none" => q <= r

\* C21: running is true only when the read task of the last start() has
\* established its connection.
C21_RunningAfterConnection ==
    tcp.running => (LastStarted(tcp) # 0 /\ tcp.conn[LastStarted(tcp)] # "none")

\* C22: when restart() runs on a source that references live tasks, it calls
\* stop() first: the tasks are cancelled (or stop() raises) before start() is
\* invoked.
C22_RestartStopsFirst ==
    [][\A o \in Callers :
          (/\ frame[o].op = "restart"
           /\ frame[o].pc = "ready"
           /\ frame'[o] # frame[o]
           /\ Target(frame[o]) # None
           /\ src[Target(frame[o])].tracked > 0)
          => LET s == Target(frame[o])
             IN  \/ src'[s].dying >= src[s].dying + src[s].tracked
                 \/ ev'.res = "raised"]_vars

\* C23: a publish of a batch whose list of measurements is empty or None
\* calls no observer and changes nothing the hub holds.
C23_EmptyBatchIgnored ==
    [][(published' = published + 1 /\ lastPub'.data = <<>>)
          => /\ lastPub'.called = {}
             /\ received' = received
             /\ UNCHANGED <<tags, offset, clock_timers, observers, default_bucket>>]_vars

\* An empty batch was published to a hub with observers that had been given an
\* earlier batch, and none of them was called.
C23_Witness ==
    /\ lastPub.id = 2
    /\ lastPub.data = <<>>
    /\ lastPub.subscribed # {}
    /\ lastPub.called = {}
    /\ \E o \in Obs : received[o] = <<1>>

\* C24: in a batch given to the observers every measurement carries the
\* hub's value for each tag key the hub defines, whatever the source supplied,
\* and the source's value for every other key.
C24_HubTagsWin ==
    lastPub.called # {}
    => \A i \in DOMAIN lastPub.data, k \in TagKeys :
          lastPub.data[i].tags[k] =
             IF tags[k] # None THEN tags[k] ELSE lastPub.sent[i].tags[k]

\* Observers were given a measurement in which the hub replaced the source's
\* value of one key and kept the source's value of a key it does not define.
C24_Witness ==
    /\ lastPub.called # {}
    /\ \E i \in DOMAIN lastPub.data, k \in TagKeys, l \in TagKeys :
          /\ lastPub.sent[i].tags[k] = "s" /\ tags[k] = "h"
          /\ lastPub.data[i].tags[k] = "h"
          /\ tags[l] = None /\ lastPub.data[i].tags[l] = "s"

\* C25: in a published batch a measurement that carried a time keeps it, and
\* one that did not gets the local time of the call plus the stored offset,
\* both in the same unit (seconds; the model keeps milliseconds).
C25_TimeAssigned ==
    [][(published' = published + 1 /\ lastPub'.data # <<>>)
          => \A i \in DOMAIN lastPub'.data :
                lastPub'.data[i].time =
                   IF lastPub'.sent[i].time # NoTime THEN lastPub'.sent[i].time
                   ELSE (lastPub'.now + offset) * 1000]_vars

\* C26: a publish of a non-empty batch gives the batch exactly once to every
\* observer subscribed at that moment, with a time in every measurement and
\* the hub's tags applied.
C26_DeliveredExactlyOnce ==
    [][(published' = published + 1 /\ lastPub'.data # <<>>)
          => /\ \A o \in Range(observers) :
                   received'[o] = Append(received[o], published')
             /\ \A o \in Obs \ Range(observers) : received'[o] = received[o]
             /\ \A i \in DOMAIN lastPub'.data :
                   /\ lastPub'.data[i].time # NoTime
                   /\ \A k \in TagKeys :
                         tags[k] # None => lastPub'.data[i].tags[k] = tags[k]]_vars

\* C27: an observer is given nothing while it is not subscribed, nothing at
\* the moment it subscribes, and afterwards only the batch being published.
C27_NoReplay ==
    [][\A o \in Obs :
          /\ o \notin Range(observers) => received'[o] = received[o]
          /\ received'[o] # received[o]
                => (published' = published + 1
                    /\ received'[o] = Append(received[o], published'))]_vars

\* An observer subscribed after a batch had been given to another one, and
\* was not given that batch.
C27_Witness ==
    \E o \in Obs, q \in Obs :
        /\ lastPub.id = 1 /\ lastPub.subscribed = {q} /\ lastPub.called = {q}
        /\ observers = <<q, o>>
        /\ received[q] = <<1>>
        /\ received[o] = <<>>

\* C28: every observer is given the batches in the order of the publish
\* calls, and the batches of one source in the order the source produced them.
C28_OrderPreserved ==
    \A o \in Obs : \A i \in DOMAIN received[o], j \in DOMAIN received[o] :
        i < j =>
          /\ received[o][i] < received[o][j]
          /\ origin[received[o][i]].src = origin[received[o][j]].src
                => origin[received[o][i]].seq < origin[received[o][j]].seq

\* An observer was given two batches of the source behind the protocol, in
\* the order in which the protocol received their data.
C28_Witness ==
    \E o \in Obs :
        /\ received[o] = <<1, 2>>
        /\ origin = <<Emission("a", 1), Emission("a", 2)>>

\* The last update of the offset got no usable delay: the query raised or
\* the delay was zero.
NtpFailed == lastNtp.tried /\ (lastNtp.raises \/ lastNtp.delay = 0)

\* C29 as stated: after an update that got no usable delay the stored offset
\* is what it was before, a warning was issued and a next attempt is scheduled.
C29_FailureKeepsOffsetAndWarns ==
    NtpFailed => (offset = lastNtp.before /\ lastNtp.warned /\ clock_timers > 0)

\* C29 amended: after an update that got no usable delay the stored offset is
\* what it was before and a next attempt is scheduled; a warning was issued
\* when the query raised.
C29_FailureKeepsOffset ==
    NtpFailed => /\ offset = lastNtp.before
                 /\ clock_timers > 0
                 /\ (lastNtp.raises => lastNtp.warned)

\* The query raised after an earlier update had stored an offset, and the
\* offset is still that one.
C29_Witness ==
    /\ lastNtp.tried /\ lastNtp.raises /\ lastNtp.warned
    /\ lastNtp.before = 5
    /\ offset = 5

\* C30: exactly one clock timer is pending in every state, from construction
\* on and after an update whatever its outcome, and updates keep happening.
C30_OneClockTimer ==
    /\ [](clock_timers = 1)
    /\ []<><<\E r \in NtpReplies : update_time_offset(r)>>_vars

\* A second update stored a delay after a first one had, and one timer is
\* pending.
C30_Witness ==
    /\ lastNtp.tried /\ ~lastNtp.raises /\ lastNtp.delay = 5
    /\ lastNtp.before = 5
    /\ clock_timers = 1

\* C31: a status request and get(name) change neither the registry nor any
\* source; the status reply has exactly one entry per registered source, its
\* name mapped to its running flag; get of an unregistered name fails.
C31_StatusAndGetReadOnly ==
    [][/\ ev'.op = "status"
          => /\ Cardinality(DOMAIN ev'.reply) = Len(list)
             /\ \A i \in DOMAIN list :
                    ev'.reply[name[list[i]]] = src[list[i]].running
             /\ UNCHANGED <<kind, name, src, sup, list, name_to_source>>
       /\ ev'.op = "get"
          => /\ UNCHANGED <<kind, name, src, sup, list, name_to_source>>
             /\ name_to_source[ev'.arg] = None => ev'.res = "ValueError"]_vars

\* C32: when a "restart <name>" request is over, one reply has been written:
\* true exactly when the name was registered and restart() returned, false
\* when the name was not registered or stop()/start() raised; the handler is
\* then back at reading the next line.
C32_RestartReply ==
    [][(frame["c1"].op = "restart" /\ frame'["c1"].op # "restart")
        => /\ ev'.op = "restart"
           /\ ev'.reply \in {"true", "false"}
           /\ ev'.reply = "true" <=> (ev'.src # None /\ ev'.res = "ok")
           /\ ev'.reply = "false" <=> (ev'.src = None \/ ev'.res = "raised")
           /\ frame'["c1"] = Idle]_vars

\* A restart whose start() raised was answered false and the handler reads on.
C32_Witness ==
    /\ ev.op = "restart"
    /\ ev.src # None
    /\ ev.res = "raised"
    /\ ev.reply = "false"
    /\ frame["c1"] = Idle

\* C33: every measurement the hub has processed carries the name of the
\* instance as the value of its "cerebro" tag.
C33_NameTagged ==
    \A i \in DOMAIN lastPub.data : lastPub.data[i].tags["cerebro"] = cerebro.name

C35_KeywordFilter ==
    (tron.last.actor # None /\ tron.last.values > 0)
    => (tron.last.recorded
        <=> (\/ ~tron.keywords.given
             \/ /\ tron.last.actor \in DOMAIN tron.keywords.by
                /\ tron.last.name \in tron.keywords.by[tron.last.actor]))

\* C38: a source's own tags stay what its constructor made them, the tags it
\* was given plus the "source" tag, whatever the hub publishes; they never
\* take a tag of the hub.
C38_SourceTagsKept ==
    tron.tags = BaseTags(tron.given)

\* C40: no input line ends the status-server handler with an error that
\* nothing handles: after a "restart" without a name or an unknown command the
\* handler is still reading lines.
C40_HandlerSurvives ==
    frame["c1"] # Dead

\* C37: the names in the name lookup are the names of the sources in the
\* list, and the lookup of a name gives a listed source of that name.
C37_LookupMatchesList ==
    /\ {n \in Names : name_to_source[n] # None} = ListedNames
    /\ \A n \in Names :
          name_to_source[n] # None
          => /\ name[name_to_source[n]] = n
             /\ \E i \in DOMAIN list : list[i] = name_to_source[n]

\* C39: at most one retry timer is pending in the loop, and it is the one
\* whose handle the client holds in _call_handle.
C39_OneRetryTimer ==
    /\ PendingTimers(client) <= 1
    /\ client.timers = 0

\* C36: with "restart" requests for one TCPSource arriving on two
\* connections, the source never has more than one live read task, and when
\* no request is in progress its running flag is true exactly when it has one.
C36_OneReadLoop ==
    kind["o1"] = "tcp"
    => /\ Live(src["o1"]) <= 1
       /\ (\A c \in Callers : frame[c] = Idle)
          => (src["o1"].running <=> Live(src["o1"]) = 1)
====
